---------------------------- MODULE Spec2Model ----------------------------
(***************************************************************************)
(* A model of include/cstr.h: the CString buffer (data, length, capacity,  *)
(* cs) and its operations.                                                 *)
(*                                                                         *)
(* The storage obj->data points to is modelled as the sequence of the      *)
(* bytes actually allocated (its Len is the allocation size, which the     *)
(* code never stores: it only keeps the capacity field).  Offsets are      *)
(* 0-based as in C; data[i] of the code is o.data[i + 1] here.             *)
(***************************************************************************)
EXTENDS Integers, Sequences, FiniteSets, TLC

\* ------------------------------------------------------------------ bounds
MaxCap == 2     \* Spec: the largest allocation followed, in bytes
MaxIn == 1      \* Spec: the longest array a caller passes in
MaxSrc == 2     \* SpecCopy, SpecConcat: the longest array a buffer is built from
MaxRt == 3      \* SpecRoundTrip: the longest content erased from
NThread == 2    \* the threads that call concurrently
MarkLen == 2    \* SpecAppend: the length of each thread's marker
MaxTok == 3     \* SpecTokens: the longest content tokenized

\* ------------------------------------------------------------------- bytes
Byte == {0, 97}             \* the values followed for an indeterminate byte
InByte == {0, 32, 97}       \* the bytes a caller passes in: NUL, ' ', 'a'
Buf == {1, 2}               \* the CString objects of the caller

Min(a, b) == IF a < b THEN a ELSE b

Zeros(n) == [k \in 1..n |-> 0]

\* The caller's arrays: every byte sequence of at most MaxIn bytes.
Arrays == UNION {[1..n -> InByte] : n \in 0..MaxIn}

\* strlen of a caller's array: the offset of its first zero byte (the array
\* is followed by a terminator when it holds none).
StrLenOf(s) ==
    IF \E k \in 1..Len(s) : s[k] = 0
    THEN (CHOOSE k \in 1..Len(s) : s[k] = 0 /\ \A j \in 1..(k - 1) : s[j] # 0) - 1
    ELSE Len(s)

\* The C string an array denotes: its bytes before the first zero.
Text(s) == SubSeq(s, 1, StrLenOf(s))

\* ------------------------------------------------------------ raw memory
\* The n bytes read at offset from of a block d.  A byte past the end of the
\* block is outside the allocation: the read yields any value.
Bytes(d, from, n) ==
    IF from + n <= Len(d)
    THEN {SubSeq(d, from + 1, from + n)}
    ELSE {SubSeq(d, from + 1, Len(d)) \o j :
             j \in [1..(from + n - (IF from < Len(d) THEN Len(d) ELSE from)) -> Byte]}

\* The block d after the bytes s are written at offset at.  A byte written
\* past the end of the block does not land in the block.
Store(d, at, s) ==
    [k \in 1..Len(d) |->
        IF k > at /\ k <= at + Len(s) THEN s[k - at] ELSE d[k]]

\* An access of n > 0 bytes at offset at leaves the allocation.
Outside(o, at, n) == n > 0 /\ (o.ptr # "valid" \/ at + n > Len(o.data))

\* strlen(obj->data): the offset of the first zero byte of the block; with no
\* zero byte in the block the scan runs past its end and stops anywhere.
StrLenData(d) ==
    IF \E k \in 1..Len(d) : d[k] = 0
    THEN {(CHOOSE k \in 1..Len(d) : d[k] = 0 /\ \A j \in 1..(k - 1) : d[j] # 0) - 1}
    ELSE Len(d)..(IF MaxCap > Len(d) THEN MaxCap ELSE Len(d))

\* ------------------------------------------------------------- the object
\* The content bytes of an object that lie in its allocation.
Stored(o) == SubSeq(o.data, 1, Min(o.length, Len(o.data)))

\* A CString that no constructor has run on.
Blank == [data |-> <<>>, ptr |-> "null", length |-> 0, capacity |-> 0, cs |-> "none"]

\* What a call leaves: the object, the value returned, and whether the call
\* accessed memory outside an allocation.
Out(o, ok, fault) == [o |-> o, ok |-> ok, fault |-> fault]

\* cstr_create
cstr_create(o) ==
    { Out(o, FALSE, FALSE),
      Out([data |-> <<0>>, ptr |-> "valid", length |-> 0, capacity |-> 1,
           cs |-> "init"], TRUE, FALSE) }

\* cstr_strdup(str) for a caller's array: NULL, or a copy of the text and
\* its terminator.
cstr_strdup(s) ==
    { [ptr |-> "null", data |-> <<>>],
      [ptr |-> "valid", data |-> Text(s) \o <<0>>] }

\* cstr_create_from_chars
cstr_create_from_chars(o, s) ==
    { Out([data |-> m.data, ptr |-> m.ptr, length |-> StrLenOf(s),
           capacity |-> StrLenOf(s) + 1, cs |-> "init"], TRUE, FALSE)
      : m \in cstr_strdup(s) }

\* cstr_create_from_buffer
cstr_create_from_buffer(o, s) ==
    { Out(o, FALSE, FALSE),
      Out([data |-> s \o <<0>>, ptr |-> "valid", length |-> Len(s),
           capacity |-> Len(s) + 1, cs |-> "init"], TRUE, FALSE) }

\* cstr_strdup(obj2->data): the texts the scan of a block can copy, each
\* with the number of bytes it read.
DataText(d) ==
    UNION { {[n |-> n, t |-> t] : t \in Bytes(d, 0, n)} : n \in StrLenData(d) }

\* cstr_create_from_cstr: the storage is cstr_strdup(obj2->data), so it holds
\* the source's bytes up to its first zero byte and one terminator, whatever
\* the length and capacity copied beside it.
cstr_create_from_cstr(o, o2) ==
    UNION { { Out([data |-> <<>>, ptr |-> "null", length |-> o2.length,
                   capacity |-> o2.capacity, cs |-> "init"],
                  TRUE, Outside(o2, 0, c.n + 1)),
              Out([data |-> c.t \o <<0>>, ptr |-> "valid", length |-> o2.length,
                   capacity |-> o2.capacity, cs |-> "init"],
                  TRUE, Outside(o2, 0, c.n + 1)) }
            : c \in DataText(o2.data) }

\* cstr_destroy: the zeroing covers capacity bytes; free(obj->data) of a
\* pointer that realloc already released is a second release of the block.
cstr_destroy(o) ==
    { Out([data |-> <<>>, ptr |-> "null", length |-> 0, capacity |-> 0,
           cs |-> "deleted"],
          TRUE,
          o.ptr # "null" /\ (Outside(o, 0, o.capacity) \/ o.ptr = "freed")) }

\* realloc(obj->data, size) within cstr_resize.  With size 0 the CRT this
\* header builds against (Windows.h) releases the block and returns NULL.
\* A block that grows keeps its bytes; the bytes added are indeterminate.
cstr_resize(o, size) ==
    IF size = 0
    THEN CASE o.ptr = "valid" ->
                { Out([o EXCEPT !.ptr = "freed", !.data = <<>>], FALSE, FALSE) }
           [] o.ptr = "null" ->
                { Out(o, FALSE, FALSE),
                  Out([o EXCEPT !.ptr = "valid", !.capacity = 0], TRUE, FALSE) }
           [] OTHER -> { Out(o, FALSE, TRUE) }
    ELSE { Out(o, FALSE, o.ptr = "freed") }
         \cup
         { Out([o EXCEPT !.data = d, !.ptr = "valid", !.capacity = size],
               TRUE, o.ptr = "freed")
           : d \in Bytes(o.data, 0, size) }

\* cstr_shrink_to_fit asking for length bytes: no byte for the terminator.
cstr_shrink_to_fit_bare(o) == cstr_resize(o, o.length)

\* cstr_shrink_to_fit
cstr_shrink_to_fit(o) == cstr_resize(o, o.length + 1)

\* cstr_clear
cstr_clear(o) ==
    { Out([o EXCEPT !.data = Store(o.data, 0, Zeros(o.capacity)), !.length = 0],
          TRUE, Outside(o, 0, o.capacity)) }

\* The growth step shared by the appending operations: cstr_resize(obj, size)
\* when the test of the caller asks for it, nothing otherwise.
Grow(o, needed, size) ==
    IF needed THEN cstr_resize(o, size) ELSE { Out(o, TRUE, FALSE) }

\* cstr_push_back_char growing to length + 1 only: no room for the terminator.
cstr_push_back_char_tight(o, chr) ==
    { IF g.ok
      THEN Out([g.o EXCEPT !.data = Store(g.o.data, o.length, <<chr, 0>>),
                           !.length = o.length + 1],
               TRUE, g.fault \/ Outside(g.o, o.length, 2))
      ELSE Out(g.o, FALSE, g.fault)
      : g \in Grow(o, o.length + 1 >= o.capacity, o.length + 1) }

\* cstr_push_back_char
cstr_push_back_char(o, chr) ==
    { IF g.ok
      THEN Out([g.o EXCEPT !.data = Store(g.o.data, o.length, <<chr, 0>>),
                           !.length = o.length + 1],
               TRUE, g.fault \/ Outside(g.o, o.length, 2))
      ELSE Out(g.o, FALSE, g.fault)
      : g \in Grow(o, o.length + 1 >= o.capacity, o.length + 2) }

\* cstr_pop_back
cstr_pop_back(o) ==
    IF o.length = 0
    THEN { Out(o, FALSE, FALSE) }
    ELSE { Out([o EXCEPT !.data = Store(o.data, o.length - 1, <<0>>),
                         !.length = o.length - 1],
               TRUE, Outside(o, o.length - 1, 1)) }

\* The tail of the appending operations: memcpy of the bytes s to
\* obj->data + obj->length, then the terminator, then the new length.
AppendBytes(g, o, s) ==
    Out([g.o EXCEPT !.data = Store(g.o.data, o.length, s \o <<0>>),
                    !.length = o.length + Len(s)],
        TRUE, g.fault \/ Outside(g.o, o.length, Len(s) + 1))

\* cstr_append_chars copying to the start of the storage: an assignment.
cstr_append_chars_reset(o, s) ==
    { IF g.ok THEN AppendBytes(g, [o EXCEPT !.length = 0], Text(s))
      ELSE Out(g.o, FALSE, g.fault)
      : g \in Grow(o, o.length + StrLenOf(s) + 1 > o.capacity,
                   o.length + StrLenOf(s) + 1) }

\* cstr_append_chars
cstr_append_chars(o, s) ==
    { IF g.ok THEN AppendBytes(g, o, Text(s)) ELSE Out(g.o, FALSE, g.fault)
      : g \in Grow(o, o.length + StrLenOf(s) + 1 > o.capacity,
                   o.length + StrLenOf(s) + 1) }

\* cstr_append_cstr: obj2->length bytes of obj2->data are copied; self says
\* obj2 is obj, whose storage is then the one just resized.
cstr_append_cstr(o, o2, self) ==
    UNION { IF g.ok
            THEN { LET a == AppendBytes(g, o, s)
                   IN  Out(a.o, TRUE,
                           a.fault \/ Outside(IF self THEN g.o ELSE o2, 0, o2.length))
                   : s \in Bytes(IF self THEN g.o.data ELSE o2.data, 0, o2.length) }
            ELSE { Out(g.o, FALSE, g.fault) }
            : g \in Grow(o, o.length + o2.length + 1 > o.capacity,
                         o.length + o2.length + 1) }

\* cstr_erase moving the tail without its terminator.
cstr_erase_short(o, index, size) ==
    IF index >= o.length \/ size = 0
    THEN { Out(o, FALSE, FALSE) }
    ELSE LET n == Min(size, o.length - index)
             move_size == o.length - (index + n)
         IN  { Out([o EXCEPT !.data = Store(o.data, index, s),
                             !.length = o.length - n],
                   TRUE, Outside(o, index + n, move_size))
               : s \in Bytes(o.data, index + n, move_size) }

\* cstr_erase
cstr_erase(o, index, size) ==
    IF index >= o.length \/ size = 0
    THEN { Out(o, FALSE, FALSE) }
    ELSE LET n == Min(size, o.length - index)
             move_size == (o.length - (index + n)) + 1
         IN  { Out([o EXCEPT !.data = Store(o.data, index, s),
                             !.length = o.length - n],
                   TRUE, Outside(o, index + n, move_size))
               : s \in Bytes(o.data, index + n, move_size) }

\* cstr_insert with the test of cstr_erase: index = length is rejected too.
cstr_insert_strict(o, index, chr) ==
    IF index >= o.length
    THEN { Out(o, FALSE, FALSE) }
    ELSE UNION { IF g.ok
                 THEN { Out([g.o EXCEPT
                               !.data = Store(Store(g.o.data, index + 1, s),
                                              index, <<chr>>),
                               !.length = o.length + 1],
                            TRUE,
                            g.fault \/ Outside(g.o, index, (o.length - index) + 2))
                        : s \in Bytes(g.o.data, index, (o.length - index) + 1) }
                 ELSE { Out(g.o, FALSE, g.fault) }
                 : g \in Grow(o, o.length + 2 > o.capacity, o.length + 2) }

\* cstr_insert
cstr_insert(o, index, chr) ==
    IF index > o.length
    THEN { Out(o, FALSE, FALSE) }
    ELSE UNION { IF g.ok
                 THEN { Out([g.o EXCEPT
                               !.data = Store(Store(g.o.data, index + 1, s),
                                              index, <<chr>>),
                               !.length = o.length + 1],
                            TRUE,
                            g.fault \/ Outside(g.o, index, (o.length - index) + 2))
                        : s \in Bytes(g.o.data, index, (o.length - index) + 1) }
                 ELSE { Out(g.o, FALSE, g.fault) }
                 : g \in Grow(o, o.length + 2 > o.capacity, o.length + 2) }

\* toupper and tolower of the C locale
toupper(c) == IF c >= 97 /\ c <= 122 THEN c - 32 ELSE c
tolower(c) == IF c >= 65 /\ c <= 90 THEN c + 32 ELSE c

\* cstr_to_upper
cstr_to_upper(o) ==
    { Out([o EXCEPT !.data = Store(o.data, 0, [k \in 1..o.length |-> toupper(s[k])])],
          TRUE, Outside(o, 0, o.length))
      : s \in Bytes(o.data, 0, o.length) }

\* cstr_to_lower
cstr_to_lower(o) ==
    { Out([o EXCEPT !.data = Store(o.data, 0, [k \in 1..o.length |-> tolower(s[k])])],
          TRUE, Outside(o, 0, o.length))
      : s \in Bytes(o.data, 0, o.length) }

\* isspace of the C locale
isspace(c) == c \in {9, 10, 11, 12, 13, 32}

\* The second scan of cstr_trim left out: end stays at length - 1.
TrimEndNone(s) == Len(s) - 1

\* The two scans of cstr_trim over the content s: start is the offset of the
\* first byte that is no space (Len(s) when there is none), end the offset
\* of the last one (start - 1 when there is none).
TrimStart(s) ==
    IF \E k \in 1..Len(s) : ~isspace(s[k])
    THEN (CHOOSE k \in 1..Len(s) :
             ~isspace(s[k]) /\ \A j \in 1..(k - 1) : isspace(s[j])) - 1
    ELSE Len(s)

TrimEnd(s) ==
    IF \E k \in 1..Len(s) : ~isspace(s[k])
    THEN (CHOOSE k \in 1..Len(s) :
             ~isspace(s[k]) /\ \A j \in (k + 1)..Len(s) : isspace(s[j])) - 1
    ELSE TrimStart(s) - 1

\* cstr_trim
cstr_trim(o) ==
    IF o.length = 0
    THEN { Out(o, FALSE, FALSE) }
    ELSE { LET start == TrimStart(s)
               end == TrimEnd(s)
               new_length == IF start <= end THEN end - start + 1 ELSE 0
               moved == IF start > 0
                        THEN Store(o.data, 0, SubSeq(s, start + 1, start + new_length))
                        ELSE o.data
           IN  Out([o EXCEPT !.data = Store(moved, new_length, <<0>>),
                             !.length = new_length],
                   TRUE, Outside(o, 0, o.length) \/ Outside(o, new_length, 1))
           : s \in Bytes(o.data, 0, o.length) }

\* cstr_substring: the bytes are copied to a temporary array and the
\* destination is built from it by cstr_create_from_chars.
cstr_substring(o, dest, start, length) ==
    IF start >= o.length
    THEN { Out(dest, FALSE, FALSE) }
    ELSE LET n == Min(length, o.length - start)
         IN  { Out(dest, FALSE, FALSE) }
             \cup
             UNION { { Out(c.o, c.ok, Outside(o, start, n))
                       : c \in cstr_create_from_chars(dest, s) }
                     : s \in Bytes(o.data, start, n) }

\* ---------------------------------------------------------------- state
VARIABLES
    obj,        \* obj[b]: the CString b (data, ptr, length, capacity, cs)
    fault,      \* a call accessed memory outside an allocation
    shrunk,     \* a cstr_resize call asked for a size below length + 1
    ret,        \* the call observed last and what it returned
    lock,       \* lock[b]: the owner of b's critical section and its depth
    pc,         \* pc[t]: the place of thread t in the call it runs
    loc,        \* loc[t]: the arguments and locals of that call
    scn         \* the script of a scenario: what it started from and did

vars == <<obj, fault, shrunk, ret, lock, pc, loc, scn>>
others == <<lock, pc, loc, scn>>

Thread == 1..NThread
NoLocals == [obj |-> 0, obj2 |-> 0, data_len |-> 0, new_length |-> 0,
             op |-> "none", ok |-> FALSE]
NoScript == [name |-> "none"]
Unowned == [owner |-> 0, depth |-> 0]

NoRet == [op |-> "none", b |-> 0, ok |-> FALSE, arg |-> <<>>]

Init ==
    /\ obj = [b \in Buf |-> Blank]
    /\ fault = FALSE
    /\ shrunk = FALSE
    /\ ret = NoRet
    /\ lock = [b \in Buf |-> Unowned]
    /\ pc = [t \in Thread |-> "idle"]
    /\ loc = [t \in Thread |-> NoLocals]
    /\ scn = NoScript

Live(b) == obj[b].cs = "init"

\* Spec follows no allocation, capacity or length above MaxCap bytes; a
\* scenario starts from objects of its own sizes and bounds its calls itself.
Fits(o) ==
    \/ scn.name # "none"
    \/ Len(o.data) <= MaxCap /\ o.capacity <= MaxCap /\ o.length <= MaxCap

\* A behaviour is followed up to a call the caller observes, a call that
\* faults, or a cstr_resize below length + 1 (the object is then no string).
Going == ret = NoRet /\ ~fault /\ ~shrunk

\* The calls that can be the one observed.  The objects of Spec are
\* interchangeable, so there the call observed is one on object 1.
Seen(b) == IF b = 1 \/ scn.name # "none" THEN BOOLEAN ELSE {FALSE}

\* One call on the object b, leaving one of the outcomes outs.  The call
\* may be the one the caller observes: its return value is kept in ret.
Call(b, outs, op, arg) ==
    /\ Going
    /\ UNCHANGED others
    /\ \E r \in outs :
          /\ Fits(r.o)
          /\ obj' = [obj EXCEPT ![b] = r.o]
          /\ fault' = r.fault
          /\ \E seen \in Seen(b) :
                ret' = IF seen THEN [op |-> op, b |-> b, ok |-> r.ok, arg |-> arg]
                       ELSE NoRet

Create(b) ==
    /\ ~Live(b)
    /\ Call(b, cstr_create(obj[b]), "create", <<>>)
    /\ UNCHANGED shrunk

CreateFromCstr(b, b2) ==
    /\ ~Live(b) /\ Live(b2)
    /\ Call(b, cstr_create_from_cstr(obj[b], obj[b2]), "create_from_cstr", <<b2>>)
    /\ UNCHANGED shrunk

CreateFromChars(b, s) ==
    /\ ~Live(b)
    /\ Call(b, cstr_create_from_chars(obj[b], s), "create_from_chars", <<>>)
    /\ UNCHANGED shrunk

CreateFromBuffer(b, s) ==
    /\ ~Live(b)
    /\ Call(b, cstr_create_from_buffer(obj[b], s), "create_from_buffer", <<>>)
    /\ UNCHANGED shrunk

Destroy(b) ==
    /\ obj[b].cs # "none"
    /\ Call(b, cstr_destroy(obj[b]), "destroy", <<>>)
    /\ UNCHANGED shrunk

Resize(b, size) ==
    /\ Live(b)
    /\ Call(b, cstr_resize(obj[b], size), "resize", <<size>>)
    /\ shrunk' = (shrunk \/ size < obj[b].length + 1)

ShrinkToFit(b) ==
    /\ Live(b)
    /\ Call(b, cstr_shrink_to_fit(obj[b]), "shrink_to_fit", <<>>)
    /\ UNCHANGED shrunk

Clear(b) ==
    /\ Live(b)
    /\ Call(b, cstr_clear(obj[b]), "clear", <<>>)
    /\ UNCHANGED shrunk

PushBackChar(b, chr) ==
    /\ Live(b)
    /\ Call(b, cstr_push_back_char(obj[b], chr), "push_back_char", <<chr>>)
    /\ UNCHANGED shrunk

PopBack(b) ==
    /\ Live(b)
    /\ Call(b, cstr_pop_back(obj[b]), "pop_back", <<>>)
    /\ UNCHANGED shrunk

AppendCstr(b, b2) ==
    /\ Live(b) /\ Live(b2)
    /\ Call(b, cstr_append_cstr(obj[b], obj[b2], b = b2), "append_cstr", <<b2>>)
    /\ UNCHANGED shrunk

AppendChars(b, s) ==
    /\ Live(b)
    /\ Call(b, cstr_append_chars(obj[b], s), "append_chars", <<>>)
    /\ UNCHANGED shrunk

Erase(b, index, size) ==
    /\ Live(b)
    /\ Call(b, cstr_erase(obj[b], index, size), "erase", <<index, size>>)
    /\ UNCHANGED shrunk

Insert(b, index, chr) ==
    /\ Live(b)
    /\ Call(b, cstr_insert(obj[b], index, chr), "insert", <<index, chr>>)
    /\ UNCHANGED shrunk

\* cstr_substring(obj b, dest b2): the destination is an object no
\* constructor has run on, or a destroyed one.
Substring(b, b2, start, length) ==
    /\ Live(b) /\ ~Live(b2)
    /\ Call(b2, cstr_substring(obj[b], obj[b2], start, length), "substring", <<b, start, length>>)
    /\ UNCHANGED shrunk

\* cstr_swap: data, length and capacity change places; each object keeps
\* its critical section.
Swap(b, b2) ==
    /\ Live(b) /\ Live(b2)
    /\ Going
    /\ obj' = [obj EXCEPT ![b] = [obj[b2] EXCEPT !.cs = obj[b].cs],
                          ![b2] = [obj[b] EXCEPT !.cs = obj[b2].cs]]
    /\ \E seen \in Seen(b) :
          ret' = IF seen THEN [op |-> "swap", b |-> b, ok |-> TRUE, arg |-> <<b2>>]
                 ELSE NoRet
    /\ UNCHANGED <<fault, shrunk, others>>

ToUpper(b) ==
    /\ Live(b)
    /\ Call(b, cstr_to_upper(obj[b]), "to_upper", <<>>)
    /\ UNCHANGED shrunk

ToLower(b) ==
    /\ Live(b)
    /\ Call(b, cstr_to_lower(obj[b]), "to_lower", <<>>)
    /\ UNCHANGED shrunk

Trim(b) ==
    /\ Live(b)
    /\ Call(b, cstr_trim(obj[b]), "trim", <<>>)
    /\ UNCHANGED shrunk

Next ==
    \E b \in Buf :
        \/ Create(b)
        \/ \E b2 \in Buf : CreateFromCstr(b, b2)
        \/ \E s \in Arrays : CreateFromChars(b, s)
        \/ \E s \in Arrays : CreateFromBuffer(b, s)
        \/ Destroy(b)
        \/ \E size \in 0..MaxCap : Resize(b, size)
        \/ ShrinkToFit(b)
        \/ Clear(b)
        \/ \E chr \in InByte : PushBackChar(b, chr)
        \/ PopBack(b)
        \/ \E b2 \in Buf : AppendCstr(b, b2)
        \/ \E s \in Arrays : AppendChars(b, s)
        \/ \E index \in 0..MaxCap, size \in 0..MaxCap : Erase(b, index, size)
        \/ \E index \in 0..MaxCap, chr \in InByte : Insert(b, index, chr)
        \/ \E b2 \in Buf, start \in 0..MaxCap, length \in 0..MaxCap :
              Substring(b, b2, start, length)
        \/ \E b2 \in Buf : Swap(b, b2)
        \/ ToUpper(b)
        \/ ToLower(b)
        \/ Trim(b)

Spec == Init /\ [][Next]_vars

\* ------------------------------------------------- scenario: Construct-copy
\* Object 1 is built by cstr_create_from_buffer from any array of at most
\* MaxSrc bytes, loses content by PopBack, Erase and Clear, and is copied to
\* object 2 by cstr_create_from_cstr.
SrcArrays == UNION {[1..n -> InByte] : n \in 0..MaxSrc}

InitCopy ==
    /\ \E s \in SrcArrays :
          \E r \in cstr_create_from_buffer(Blank, s) :
              r.ok /\ obj = [b \in Buf |-> IF b = 1 THEN r.o ELSE Blank]
    /\ fault = FALSE
    /\ shrunk = FALSE
    /\ ret = NoRet
    /\ lock = [b \in Buf |-> Unowned]
    /\ pc = [t \in Thread |-> "idle"]
    /\ loc = [t \in Thread |-> NoLocals]
    /\ scn = [name |-> "copy"]

NextCopy ==
    \/ PopBack(1)
    \/ \E index \in 0..MaxSrc, size \in 1..MaxSrc : Erase(1, index, size)
    \/ Clear(1)
    \/ CreateFromCstr(2, 1)
    \/ Destroy(2)

SpecCopy == InitCopy /\ [][NextCopy]_vars

\* The object o, or o after a cstr_resize that gave it room more bytes.
Roomy(o, room) ==
    IF room = 0 THEN {o}
    ELSE {g.o : g \in {h \in cstr_resize(o, o.capacity + room) : h.ok}}

\* One call of a scenario on the object b, leaving the outcome r.
Step(b, r) ==
    /\ obj' = [obj EXCEPT ![b] = r.o]
    /\ fault' = (fault \/ r.fault)
    /\ UNCHANGED <<shrunk, ret, lock, pc, loc>>

\* ------------------------------------------- scenario: Erase and re-Insert
\* Object 1 is built by cstr_create_from_buffer from any array s of at most
\* MaxRt bytes, and may have been resized to one byte more.  The caller
\* erases size bytes at index, keeping the bytes removed, and inserts them
\* again one at a time at index, index + 1, ...
RtArrays == UNION {[1..n -> InByte] : n \in 0..MaxRt}

InitRoundTrip ==
    /\ \E s \in RtArrays :
          \E r \in cstr_create_from_buffer(Blank, s), room \in {0, 1} :
              /\ r.ok
              /\ \E o \in Roomy(r.o, room) :
                    obj = [b \in Buf |-> IF b = 1 THEN o ELSE Blank]
              /\ scn = [name |-> "roundtrip", s |-> s, index |-> 0,
                        removed |-> <<>>, k |-> 0, phase |-> "start"]
    /\ fault = FALSE
    /\ shrunk = FALSE
    /\ ret = NoRet
    /\ lock = [b \in Buf |-> Unowned]
    /\ pc = [t \in Thread |-> "idle"]
    /\ loc = [t \in Thread |-> NoLocals]

RtErase(index, size) ==
    /\ scn.name = "roundtrip" /\ scn.phase = "start"
    /\ \E r \in cstr_erase(obj[1], index, size) :
          /\ Step(1, r)
          /\ scn' = IF r.ok
                    THEN [scn EXCEPT
                            !.index = index,
                            !.removed = SubSeq(Stored(obj[1]), index + 1,
                                               index + Min(size, obj[1].length - index)),
                            !.phase = "erased"]
                    ELSE [scn EXCEPT !.phase = "rejected"]

RtInsert ==
    /\ scn.name = "roundtrip" /\ scn.phase = "erased"
    /\ \E r \in cstr_insert(obj[1], scn.index + scn.k, scn.removed[scn.k + 1]) :
          /\ Step(1, r)
          /\ scn' = IF ~r.ok THEN [scn EXCEPT !.phase = "failed"]
                    ELSE [scn EXCEPT
                            !.k = scn.k + 1,
                            !.phase = IF scn.k + 1 = Len(scn.removed)
                                      THEN "restored" ELSE "erased"]

NextRoundTrip ==
    \/ \E index \in 0..MaxRt, size \in 0..MaxRt : RtErase(index, size)
    \/ RtInsert

SpecRoundTrip == InitRoundTrip /\ [][NextRoundTrip]_vars

\* --------------------------------------- scenario: Construct, then Append
\* For arrays a and b of at most MaxSrc bytes each, object 1 is built from a
\* and appended with b by cstr_append_chars (b is passed followed by a
\* terminator), and object 2 is built from a followed by b.
InitConcat ==
    /\ \E a \in SrcArrays, b \in SrcArrays :
          scn = [name |-> "concat", a |-> a, b |-> b, appended |-> FALSE]
    /\ obj = [b \in Buf |-> Blank]
    /\ fault = FALSE
    /\ shrunk = FALSE
    /\ ret = NoRet
    /\ lock = [b \in Buf |-> Unowned]
    /\ pc = [t \in Thread |-> "idle"]
    /\ loc = [t \in Thread |-> NoLocals]

CcLeft ==
    /\ scn.name = "concat" /\ ~Live(1)
    /\ \E r \in cstr_create_from_buffer(obj[1], scn.a) : r.ok /\ Step(1, r)
    /\ UNCHANGED scn

CcWhole ==
    /\ scn.name = "concat" /\ ~Live(2)
    /\ \E r \in cstr_create_from_buffer(obj[2], scn.a \o scn.b) : r.ok /\ Step(2, r)
    /\ UNCHANGED scn

CcAppend ==
    /\ scn.name = "concat" /\ Live(1) /\ ~scn.appended
    /\ \E r \in cstr_append_chars(obj[1], scn.b) :
          /\ Step(1, r)
          /\ scn' = [scn EXCEPT !.appended = r.ok]

NextConcat == CcLeft \/ CcWhole \/ CcAppend

SpecConcat == InitConcat /\ [][NextConcat]_vars

\* ---------------------------------------------------------------- threads
\* cstr_lock: EnterCriticalSection waits while another thread owns the
\* section and counts the entries of the thread that owns it.
cstr_lock_open(t, b) ==
    lock' = [lock EXCEPT ![b] = [owner |-> t, depth |-> @.depth + 1]]

cstr_lock(t, b) ==
    /\ lock[b].owner \in {0, t}
    /\ lock' = [lock EXCEPT ![b] = [owner |-> t, depth |-> @.depth + 1]]

\* cstr_unlock that leaves the section entered.
cstr_unlock_kept(t, b) == lock' = lock

\* cstr_unlock: LeaveCriticalSection.
cstr_unlock(t, b) ==
    lock' = [lock EXCEPT ![b] = IF @.depth <= 1 THEN Unowned
                                ELSE [owner |-> @.owner, depth |-> @.depth - 1]]

Goto(t, p) == pc' = [pc EXCEPT ![t] = p]

\* The objects a scenario with threads starts from, built by
\* cstr_create_from_buffer from the arrays s1 and s2.
Built(s1, s2) ==
    \E r1 \in cstr_create_from_buffer(Blank, s1),
       r2 \in cstr_create_from_buffer(Blank, s2) :
        r1.ok /\ r2.ok /\ obj = [b \in Buf |-> IF b = 1 THEN r1.o ELSE r2.o]

Quiet ==
    /\ fault = FALSE
    /\ shrunk = FALSE
    /\ ret = NoRet
    /\ lock = [b \in Buf |-> Unowned]
    /\ pc = [t \in Thread |-> "idle"]
    /\ loc = [t \in Thread |-> NoLocals]

\* ------------------------------------------------ scenario: concurrent Swap
\* Each thread calls cstr_swap once, on any two of the objects in any order.
InitSwap ==
    /\ \E s \in Arrays : Built(s, <<>>)
    /\ scn = [name |-> "swap"]
    /\ Quiet

\* cstr_swap: cstr_lock(obj)
SwapLock1(t, b, b2) ==
    /\ scn.name = "swap" /\ pc[t] = "idle"
    /\ cstr_lock(t, b)
    /\ loc' = [loc EXCEPT ![t] = [NoLocals EXCEPT !.op = "swap", !.obj = b, !.obj2 = b2]]
    /\ Goto(t, "swap_lock2")
    /\ UNCHANGED <<obj, fault, shrunk, ret, scn>>

\* cstr_swap: cstr_lock(obj2)
SwapLock2(t) ==
    /\ pc[t] = "swap_lock2"
    /\ cstr_lock(t, loc[t].obj2)
    /\ Goto(t, "swap_exchange")
    /\ UNCHANGED <<obj, fault, shrunk, ret, loc, scn>>

\* cstr_swap: the three exchanges
SwapExchange(t) ==
    /\ pc[t] = "swap_exchange"
    /\ LET b == loc[t].obj
           b2 == loc[t].obj2
       IN  obj' = [obj EXCEPT ![b] = [obj[b2] EXCEPT !.cs = obj[b].cs],
                              ![b2] = [obj[b] EXCEPT !.cs = obj[b2].cs]]
    /\ Goto(t, "swap_unlock2")
    /\ UNCHANGED <<fault, shrunk, ret, lock, loc, scn>>

\* cstr_swap: cstr_unlock(obj2)
SwapUnlock2(t) ==
    /\ pc[t] = "swap_unlock2"
    /\ cstr_unlock(t, loc[t].obj2)
    /\ Goto(t, "swap_unlock1")
    /\ UNCHANGED <<obj, fault, shrunk, ret, loc, scn>>

\* cstr_swap: cstr_unlock(obj); return true
SwapUnlock1(t) ==
    /\ pc[t] = "swap_unlock1"
    /\ cstr_unlock(t, loc[t].obj)
    /\ loc' = [loc EXCEPT ![t].ok = TRUE]
    /\ Goto(t, "done")
    /\ UNCHANGED <<obj, fault, shrunk, ret, scn>>

NextSwap ==
    \E t \in Thread :
        \/ \E b \in Buf, b2 \in Buf : SwapLock1(t, b, b2)
        \/ SwapLock2(t)
        \/ SwapExchange(t)
        \/ SwapUnlock2(t)
        \/ SwapUnlock1(t)

SpecSwap == InitSwap /\ [][NextSwap]_vars


\* --------------------------------------------- scenario: concurrent Append
\* Each thread calls cstr_append_chars once on object 1 with a marker of its
\* own: MarkLen bytes that no other thread appends.  Object 1 starts with
\* any content of at most MaxIn bytes and with or without room for a marker.
Marker(t) == [i \in 1..MarkLen |-> 64 + t]

InitAppend ==
    /\ \E s \in Arrays, room \in {0, MarkLen} :
          /\ \E r \in cstr_create_from_buffer(Blank, s) :
                /\ r.ok
                /\ \E o \in Roomy(r.o, room) :
                      obj = [b \in Buf |-> IF b = 1 THEN o ELSE Blank]
          /\ scn = [name |-> "append", init |-> s]
    /\ Quiet

\* cstr_append_chars: cstr_lock(obj)
AppLock(t) ==
    /\ scn.name = "append" /\ pc[t] = "idle"
    /\ cstr_lock(t, 1)
    /\ loc' = [loc EXCEPT ![t] = [NoLocals EXCEPT !.op = "append_chars", !.obj = 1]]
    /\ Goto(t, "app_measure")
    /\ UNCHANGED <<obj, fault, shrunk, ret, scn>>

\* cstr_append_chars: data_len, new_length and the test of required_capacity
AppMeasure(t) ==
    /\ pc[t] = "app_measure"
    /\ LET data_len == StrLenOf(Marker(t))
           new_length == obj[1].length + data_len
       IN  /\ loc' = [loc EXCEPT ![t].data_len = data_len,
                                 ![t].new_length = new_length]
           /\ Goto(t, IF new_length + 1 > obj[1].capacity
                      THEN "app_grow" ELSE "app_copy")
    /\ UNCHANGED <<obj, fault, shrunk, ret, lock, scn>>

\* cstr_append_chars: cstr_resize(obj, required_capacity), which enters and
\* leaves the section its caller already owns.
AppGrow(t) ==
    /\ pc[t] = "app_grow"
    /\ \E g \in cstr_resize(obj[1], loc[t].new_length + 1) :
          /\ obj' = [obj EXCEPT ![1] = g.o]
          /\ fault' = (fault \/ g.fault)
          /\ Goto(t, IF g.ok THEN "app_copy" ELSE "app_fail")
    /\ UNCHANGED <<shrunk, ret, lock, loc, scn>>

\* cstr_append_chars: cstr_unlock(obj); return false
AppFail(t) ==
    /\ pc[t] = "app_fail"
    /\ cstr_unlock(t, 1)
    /\ Goto(t, "done")
    /\ UNCHANGED <<obj, fault, shrunk, ret, loc, scn>>

\* cstr_append_chars: memcpy(obj->data + obj->length, data, data_len)
AppCopy(t) ==
    /\ pc[t] = "app_copy"
    /\ obj' = [obj EXCEPT ![1].data =
                  Store(@, obj[1].length, SubSeq(Marker(t), 1, loc[t].data_len))]
    /\ fault' = (fault \/ Outside(obj[1], obj[1].length, loc[t].data_len))
    /\ Goto(t, "app_term")
    /\ UNCHANGED <<shrunk, ret, lock, loc, scn>>

\* cstr_append_chars: obj->data[new_length] = '\0'
AppTerm(t) ==
    /\ pc[t] = "app_term"
    /\ obj' = [obj EXCEPT ![1].data = Store(@, loc[t].new_length, <<0>>)]
    /\ fault' = (fault \/ Outside(obj[1], loc[t].new_length, 1))
    /\ Goto(t, "app_len")
    /\ UNCHANGED <<shrunk, ret, lock, loc, scn>>

\* cstr_append_chars: obj->length = new_length
AppLen(t) ==
    /\ pc[t] = "app_len"
    /\ obj' = [obj EXCEPT ![1].length = loc[t].new_length]
    /\ Goto(t, "app_unlock")
    /\ UNCHANGED <<fault, shrunk, ret, lock, loc, scn>>

\* cstr_append_chars: cstr_unlock(obj); return true
AppUnlock(t) ==
    /\ pc[t] = "app_unlock"
    /\ cstr_unlock(t, 1)
    /\ loc' = [loc EXCEPT ![t].ok = TRUE]
    /\ Goto(t, "done")
    /\ UNCHANGED <<obj, fault, shrunk, ret, scn>>

NextAppend ==
    \E t \in Thread :
        \/ AppLock(t)
        \/ AppMeasure(t)
        \/ AppGrow(t)
        \/ AppFail(t)
        \/ AppCopy(t)
        \/ AppTerm(t)
        \/ AppLen(t)
        \/ AppUnlock(t)

SpecAppend == InitAppend /\ [][NextAppend]_vars

\* ------------------------- scenario: Append(other-buffer) beside PopBack
\* One thread calls cstr_append_cstr(object 1, object 2) while the others
\* call cstr_pop_back(object 2).  Object 2 starts with any content of at
\* most MaxSrc bytes, object 1 empty.
InitTorn ==
    /\ \E s \in SrcArrays :
          /\ Built(<<>>, s)
          /\ scn = [name |-> "torn", src |-> s, appender |-> 0]
    /\ Quiet

\* cstr_append_cstr: cstr_lock(obj)
AcLock(t) ==
    /\ scn.name = "torn" /\ scn.appender = 0 /\ pc[t] = "idle"
    /\ cstr_lock(t, 1)
    /\ loc' = [loc EXCEPT ![t] = [NoLocals EXCEPT !.op = "append_cstr",
                                                  !.obj = 1, !.obj2 = 2]]
    /\ scn' = [scn EXCEPT !.appender = t]
    /\ Goto(t, "ac_measure")
    /\ UNCHANGED <<obj, fault, shrunk, ret>>

\* cstr_append_cstr: new_length from obj2->length, and the test of
\* required_capacity
AcMeasure(t) ==
    /\ pc[t] = "ac_measure"
    /\ LET new_length == obj[1].length + obj[2].length
       IN  /\ loc' = [loc EXCEPT ![t].new_length = new_length]
           /\ Goto(t, IF new_length + 1 > obj[1].capacity
                      THEN "ac_grow" ELSE "ac_copy")
    /\ UNCHANGED <<obj, fault, shrunk, ret, lock, scn>>

\* cstr_append_cstr: cstr_resize(obj, required_capacity)
AcGrow(t) ==
    /\ pc[t] = "ac_grow"
    /\ \E g \in cstr_resize(obj[1], loc[t].new_length + 1) :
          /\ obj' = [obj EXCEPT ![1] = g.o]
          /\ fault' = (fault \/ g.fault)
          /\ Goto(t, IF g.ok THEN "ac_copy" ELSE "ac_fail")
    /\ UNCHANGED <<shrunk, ret, lock, loc, scn>>

\* cstr_append_cstr: cstr_unlock(obj); return false
AcFail(t) ==
    /\ pc[t] = "ac_fail"
    /\ cstr_unlock(t, 1)
    /\ Goto(t, "done")
    /\ UNCHANGED <<obj, fault, shrunk, ret, loc, scn>>

\* cstr_append_cstr: memcpy(obj->data + obj->length, obj2->data, obj2->length)
AcCopy(t) ==
    /\ pc[t] = "ac_copy"
    /\ \E s \in Bytes(obj[2].data, 0, obj[2].length) :
          obj' = [obj EXCEPT ![1].data = Store(@, obj[1].length, s)]
    /\ fault' = (fault \/ Outside(obj[1], obj[1].length, obj[2].length)
                       \/ Outside(obj[2], 0, obj[2].length))
    /\ Goto(t, "ac_term")
    /\ UNCHANGED <<shrunk, ret, lock, loc, scn>>

\* cstr_append_cstr: obj->data[new_length] = '\0'
AcTerm(t) ==
    /\ pc[t] = "ac_term"
    /\ obj' = [obj EXCEPT ![1].data = Store(@, loc[t].new_length, <<0>>)]
    /\ fault' = (fault \/ Outside(obj[1], loc[t].new_length, 1))
    /\ Goto(t, "ac_len")
    /\ UNCHANGED <<shrunk, ret, lock, loc, scn>>

\* cstr_append_cstr: obj->length = new_length
AcLen(t) ==
    /\ pc[t] = "ac_len"
    /\ obj' = [obj EXCEPT ![1].length = loc[t].new_length]
    /\ Goto(t, "ac_unlock")
    /\ UNCHANGED <<fault, shrunk, ret, lock, loc, scn>>

\* cstr_append_cstr: cstr_unlock(obj); return true
AcUnlock(t) ==
    /\ pc[t] = "ac_unlock"
    /\ cstr_unlock(t, 1)
    /\ loc' = [loc EXCEPT ![t].ok = TRUE]
    /\ Goto(t, "done")
    /\ UNCHANGED <<obj, fault, shrunk, ret, scn>>

\* cstr_pop_back: cstr_lock(obj)
PbLock(t) ==
    /\ scn.name = "torn" /\ pc[t] = "idle"
    /\ cstr_lock(t, 2)
    /\ loc' = [loc EXCEPT ![t] = [NoLocals EXCEPT !.op = "pop_back", !.obj = 2]]
    /\ Goto(t, "pb_zero")
    /\ UNCHANGED <<obj, fault, shrunk, ret, scn>>

\* cstr_pop_back: the test of obj->length, then obj->data[obj->length - 1] = 0
PbZero(t) ==
    /\ pc[t] = "pb_zero"
    /\ IF obj[2].length = 0
       THEN Goto(t, "pb_fail") /\ UNCHANGED <<obj, fault>>
       ELSE /\ obj' = [obj EXCEPT ![2].data = Store(@, obj[2].length - 1, <<0>>)]
            /\ fault' = (fault \/ Outside(obj[2], obj[2].length - 1, 1))
            /\ Goto(t, "pb_len")
    /\ UNCHANGED <<shrunk, ret, lock, loc, scn>>

\* cstr_pop_back: obj->length--
PbLen(t) ==
    /\ pc[t] = "pb_len"
    /\ obj' = [obj EXCEPT ![2].length = @ - 1]
    /\ loc' = [loc EXCEPT ![t].ok = TRUE]
    /\ Goto(t, "pb_unlock")
    /\ UNCHANGED <<fault, shrunk, ret, lock, scn>>

\* cstr_pop_back: cstr_unlock(obj); return
PbUnlock(t) ==
    /\ pc[t] \in {"pb_unlock", "pb_fail"}
    /\ cstr_unlock(t, 2)
    /\ Goto(t, "done")
    /\ UNCHANGED <<obj, fault, shrunk, ret, loc, scn>>

NextTorn ==
    \E t \in Thread :
        \/ AcLock(t)
        \/ AcMeasure(t)
        \/ AcGrow(t)
        \/ AcFail(t)
        \/ AcCopy(t)
        \/ AcTerm(t)
        \/ AcLen(t)
        \/ AcUnlock(t)
        \/ PbLock(t)
        \/ PbZero(t)
        \/ PbLen(t)
        \/ PbUnlock(t)

SpecTorn == InitTorn /\ [][NextTorn]_vars


\* ----------------------------------------------------------------- claims

\* C1 as stated: capacity >= length + 1 for every live buffer, after any
\* sequence of constructors and operations (capacity = 0 is then left to
\* the buffers that are not live).
C1_AnySequence ==
    \A b \in Buf :
        (Live(b) /\ obj[b].ptr = "valid" /\ obj[b].data # <<>>) =>
            obj[b].capacity >= obj[b].length + 1

\* C1, amended: as long as every Resize call asks for at least length + 1
\* bytes, every live buffer has capacity >= length + 1, and so capacity = 0
\* only belongs to a destroyed or never-initialized buffer.
C1_CapacityCoversLength ==
    ~shrunk =>
        \A b \in Buf :
            /\ Live(b) => obj[b].capacity >= obj[b].length + 1
            /\ obj[b].capacity = 0 => ~Live(b)

\* A Resize that asked for more than length + 1 bytes returned success
\* while a buffer holds content.
C1_Witness ==
    /\ ~shrunk
    /\ ret.op = "resize" /\ ret.ok
    /\ obj[ret.b].capacity > obj[ret.b].length + 1
    /\ \E b \in Buf : Live(b) /\ obj[b].length >= 1

\* C2: at every call boundary the byte at offset length of a live buffer's
\* storage is the terminator (stated for the buffers whose storage is
\* present, in behaviours where Resize kept length < new_capacity).
C2_Terminated ==
    (~shrunk /\ ~fault) =>
        \A b \in Buf :
            (Live(b) /\ obj[b].ptr = "valid") =>
                /\ obj[b].length < Len(obj[b].data)
                /\ obj[b].data[obj[b].length + 1] = 0

\* C8: Construct-copy yields a buffer whose length and capacity equal the
\* source's and whose content bytes [0, length) are the source's, for every
\* state of the source (content with zero bytes, length reduced by PopBack,
\* Erase or Clear).
C8_CopyEqualsSource ==
    (ret.op = "create_from_cstr" /\ ret.ok /\ obj[ret.b].ptr = "valid") =>
        LET copy == obj[ret.b]
            other == obj[ret.arg[1]]
        IN  /\ copy.length = other.length
            /\ copy.capacity = other.capacity
            /\ copy.length <= Len(copy.data)
            /\ Stored(copy) = Stored(other)

\* C9: Construct-from-text and Construct-copy never report success for a
\* buffer whose data is absent.
C9_NoSuccessWithoutData ==
    (ret.op \in {"create_from_chars", "create_from_cstr"} /\ ret.ok) =>
        obj[ret.b].ptr # "null"

\* The byte at offset length of the object o is a terminator it owns.
Terminated(o) == o.length < Len(o.data) /\ o.data[o.length + 1] = 0

\* A thread is inside a call, and it waits for a section another owns.
Inside(t) == pc[t] \notin {"idle", "done"}
Waiting(t) == pc[t] = "swap_lock2" /\ lock[loc[t].obj2].owner \notin {0, t}

\* C3.  Threads that call Swap concurrently, on the same buffers in either
\* argument order, never deadlock: while a call is not complete, some call
\* that is not complete can take its next step.
C3_SwapsComplete ==
    scn.name = "swap" =>
        ((\E t \in Thread : Inside(t)) => (\E t \in Thread : Inside(t) /\ ~Waiting(t)))

\* The markers of the threads q[from], q[from + 1], ... one after another.
RECURSIVE Flat(_, _, _)
Flat(q, from, n) ==
    IF from > n THEN <<>> ELSE Marker(q[from]) \o Flat(q, from + 1, n)

\* The orders in which the threads of W can have appended.
Orders(W) ==
    {q \in [1..Cardinality(W) -> W] :
        \A i, j \in 1..Cardinality(W) : q[i] = q[j] => i = j}

\* C4.  When the threads have each called Append on one buffer with a
\* marker of their own and all calls are complete, the length is the initial
\* length plus the lengths of the markers of the calls that returned
\* success, and the content is the initial content followed by each of these
\* markers exactly once, whole, in some order, and a terminator.  No call
\* accesses memory outside the allocation.
C4_MarkersAppended ==
    scn.name = "append" =>
        /\ ~fault
        /\ (\A t \in Thread : pc[t] = "done") =>
              LET W == {t \in Thread : loc[t].ok}
              IN  /\ obj[1].length = Len(scn.init) + MarkLen * Cardinality(W)
                  /\ Terminated(obj[1])
                  /\ \E q \in Orders(W) :
                        Stored(obj[1]) = scn.init \o Flat(q, 1, Cardinality(W))

\* All threads appended their markers to a buffer that held content.
C4_Witness ==
    /\ scn.name = "append"
    /\ \A t \in Thread : pc[t] = "done" /\ loc[t].ok
    /\ Len(scn.init) >= 1
    /\ obj[1].length = Len(scn.init) + MarkLen * NThread

\* The objects whose data, length or capacity the next step of thread t
\* reads or writes.
Accessed(t) ==
    IF pc[t] \in {"ac_measure", "ac_copy"} THEN {1, 2}
    ELSE IF pc[t] \in {"ac_grow", "ac_term", "ac_len"} THEN {1}
    ELSE IF pc[t] \in {"pb_zero", "pb_len"} THEN {2}
    ELSE {}

\* The contents object 2 has between calls: PopBack leaves a prefix.
Prefixes(s) == {SubSeq(s, 1, n) : n \in 0..Len(s)}

\* C5.  A thread accesses the data, length and capacity of a buffer only
\* while it owns the buffer's lock, the source of Append(other-buffer)
\* included; so an Append(other-buffer) that returns success has appended
\* a content the source had between two calls.
C5_LockedAccess ==
    scn.name = "torn" =>
        /\ \A t \in Thread : \A b \in Accessed(t) : lock[b].owner = t
        /\ \A t \in Thread :
              (pc[t] = "done" /\ loc[t].op = "append_cstr" /\ loc[t].ok) =>
                  /\ ~fault
                  /\ Stored(obj[1]) \in Prefixes(scn.src)
                  /\ Terminated(obj[1])

\* C6.  For a buffer with content s, an index below the length and a
\* count of at least 1, Erase(index, count) followed by Insert of the bytes
\* removed, one at a time at index, index + 1, ..., never fails and leaves
\* the content s, the length of s and the terminator at offset length.
C6_RoundTrip ==
    scn.name = "roundtrip" =>
        /\ scn.phase # "failed"
        /\ ~fault
        /\ scn.phase = "restored" =>
              /\ obj[1].length = Len(scn.s)
              /\ Stored(obj[1]) = scn.s
              /\ Terminated(obj[1])

\* Bytes were erased from inside a buffer, with content before and behind
\* them, and all of them are inserted again.
C6_Witness ==
    /\ scn.name = "roundtrip" /\ scn.phase = "restored"
    /\ scn.index >= 1 /\ Len(scn.removed) >= 1
    /\ scn.index + Len(scn.removed) < Len(scn.s)

NoZero(s) == \A i \in 1..Len(s) : s[i] # 0

\* Objects 1 and 2 of the Construct-then-Append scenario hold the same
\* length and the same content, a followed by b, with a terminator.
C7_Same ==
    /\ ~fault
    /\ obj[1].length = obj[2].length
    /\ Stored(obj[1]) = scn.a \o scn.b
    /\ Stored(obj[2]) = scn.a \o scn.b
    /\ Terminated(obj[1]) /\ Terminated(obj[2])

\* C7 as stated: for all byte sequences a and b, the buffer built from a and
\* appended with b equals the buffer built from a followed by b.
C7_AnyBytes ==
    (scn.name = "concat" /\ scn.appended /\ Live(2)) => C7_Same

\* C7, amended: the same for every a and every b that holds no zero byte,
\* when the constructions and the Append return success.
C7_ConcatText ==
    (scn.name = "concat" /\ scn.appended /\ Live(2) /\ NoZero(scn.b)) => C7_Same

\* A text was appended to a buffer whose content starts with a zero byte.
C7_Witness ==
    /\ scn.name = "concat" /\ scn.appended /\ Live(2)
    /\ NoZero(scn.b) /\ Len(scn.b) >= 1
    /\ Len(scn.a) >= 1 /\ scn.a[1] = 0

\* C10.  The step is an observed call with arguments that are to be
\* rejected, b being the object whose length they are compared with.
C10_Rejected(b) ==
    \/ ret'.op = "pop_back" /\ ret'.b = b /\ obj[b].length = 0
    \/ ret'.op = "insert" /\ ret'.b = b /\ ret'.arg[1] > obj[b].length
    \/ /\ ret'.op = "erase" /\ ret'.b = b
       /\ (ret'.arg[1] >= obj[b].length \/ ret'.arg[2] = 0)
    \/ ret'.op = "substring" /\ ret'.arg[1] = b /\ ret'.arg[2] >= obj[b].length

\* The observed call is Insert on b with index = length.
C10_AtEnd(b) ==
    ret'.op = "insert" /\ ret'.b = b /\ ret'.arg[1] = obj[b].length

\* The step leaves b with the length, the capacity and the content bytes
\* that PushChar of the byte chr leaves.
C10_AsPushChar(b, chr) ==
    \E p \in cstr_push_back_char(obj[b], chr) :
        /\ p.ok
        /\ p.o.length = obj'[b].length
        /\ p.o.capacity = obj'[b].capacity
        /\ Stored(p.o) = Stored(obj'[b])

\* C10 as stated: PopBack on length 0, Insert with index > length, Erase
\* with index >= length or count = 0 and Substring with start >= length
\* return failure and change nothing; Insert with index = length succeeds
\* and behaves as an append of the byte.
C10_AsStated ==
    [][\A b \in Buf :
          /\ C10_Rejected(b) => (~ret'.ok /\ obj' = obj)
          /\ C10_AtEnd(b) => (ret'.ok /\ C10_AsPushChar(b, ret'.arg[2]))]_vars

\* C10, amended: the rejected arguments as stated; Insert with index =
\* length behaves as an append of the byte unless the buffer has to grow and
\* the allocation fails, and then it returns failure and changes nothing.
C10_ArgumentChecks ==
    [][\A b \in Buf :
          /\ C10_Rejected(b) => (~ret'.ok /\ obj' = obj)
          /\ C10_AtEnd(b) =>
                \/ ret'.ok /\ C10_AsPushChar(b, ret'.arg[2])
                \/ /\ ~ret'.ok /\ obj' = obj
                   /\ obj[b].length + 2 > obj[b].capacity]_vars

\* Insert at index = length returned success and the byte is the last one.
C10_Witness ==
    /\ ret.op = "insert" /\ ret.ok
    /\ obj[ret.b].length = ret.arg[1] + 1
    /\ obj[ret.b].data[ret.arg[1] + 1] = ret.arg[2]
    /\ ~fault

\* C11.  A ShrinkToFit that returns success leaves the length, and every
\* byte at the offsets 0..length that the storage held, unchanged, sets the
\* capacity to length + 1 and the storage to as many bytes, and leaves the
\* other buffer alone; this from every state Spec reaches.
C11_ShrinkToFitFrame ==
    [][\A b \in Buf :
          (ret'.op = "shrink_to_fit" /\ ret'.b = b /\ ret'.ok) =>
              LET k == Min(obj[b].length + 1, Len(obj[b].data))
              IN  /\ obj'[b].length = obj[b].length
                  /\ obj'[b].capacity = obj[b].length + 1
                  /\ Len(obj'[b].data) = obj[b].length + 1
                  /\ SubSeq(obj'[b].data, 1, k) = SubSeq(obj[b].data, 1, k)
                  /\ \A c \in Buf \ {b} : obj'[c] = obj[c]]_vars

\* ShrinkToFit returned success on a buffer that holds content.
C11_Witness ==
    /\ ret.op = "shrink_to_fit" /\ ret.ok /\ ~fault
    /\ obj[ret.b].length >= 1
    /\ obj[ret.b].capacity = obj[ret.b].length + 1
    /\ Terminated(obj[ret.b])

\* ------------------------------------------------------ scenario: Substring
\* Object 1 is built by cstr_create_from_buffer from any array s of at most
\* MaxSrc bytes; the caller extracts slices of it into object 2, destroying
\* object 2 between two extractions.
InitSlice ==
    /\ \E s \in SrcArrays :
          /\ \E r \in cstr_create_from_buffer(Blank, s) :
                r.ok /\ obj = [b \in Buf |-> IF b = 1 THEN r.o ELSE Blank]
          /\ scn = [name |-> "slice", s |-> s]
    /\ Quiet

SlSubstring(start, length) ==
    /\ scn.name = "slice"
    /\ ~Live(2)
    /\ Call(2, cstr_substring(obj[1], obj[2], start, length), "substring",
            <<1, start, length>>)
    /\ UNCHANGED shrunk

NextSlice ==
    \/ \E start \in 0..MaxSrc, length \in 0..(MaxSrc + 1) : SlSubstring(start, length)
    \/ Destroy(2)

SpecSlice == InitSlice /\ [][NextSlice]_vars

\* C12.  For start < length, a Substring(start, count) that succeeds leaves in
\* the destination a buffer of its own whose length is
\* min(count, length - start) and whose content is the source's bytes at
\* start .. start + min(count, length - start) - 1, zero bytes included; the
\* source is as it was built.
C12_SubstringSlice ==
    (ret.op = "substring" /\ ret.ok) =>
        LET src == obj[ret.arg[1]]
            start == ret.arg[2]
            n == Min(ret.arg[3], Len(scn.s) - start)
        IN  /\ start < Len(scn.s)
            /\ obj[ret.b].ptr = "valid"
            /\ obj[ret.b].length = n
            /\ obj[ret.b].length < Len(obj[ret.b].data)
            /\ Stored(obj[ret.b]) = SubSeq(scn.s, start + 1, start + n)
            /\ src.length = Len(scn.s) /\ Stored(src) = scn.s

\* ------------------------------------------------------------- the queries
\* (size_t)-1, the largest size_t: written as the integer it wraps from, so
\* that length - 1 of an empty buffer is this value.
invalid == -1

\* strstr(h, n) for the texts h and n: the offset of the first place of h
\* where n stands (0 for an empty n), invalid for the NULL of no match.
strstr(h, n) ==
    LET at == {i \in 0..(Len(h) - Len(n)) : SubSeq(h, i + 1, i + Len(n)) = n}
    IN  IF at = {} THEN invalid
        ELSE CHOOSE i \in at : \A j \in at : i <= j

\* What a query leaves: the value it yields, the boolean it returns (TRUE
\* for a query that returns none), and whether the call accessed memory
\* outside an allocation.
Got(out, ok, bad) == [out |-> out, ok |-> ok, fault |-> bad]

\* The value a query yields for the offset i strstr found.
Found(i, bad) == Got(i, i # invalid, bad)

\* cstr_find_chars: strstr scans obj->data up to its first zero byte, and
\* the array up to its terminator.
cstr_find_chars(o, s) ==
    { Found(strstr(c.t, Text(s)), Outside(o, 0, c.n + 1)) : c \in DataText(o.data) }

\* cstr_find_cstr: both texts are the bytes of a block up to its first zero.
cstr_find_cstr(o, o2) ==
    UNION { { Found(strstr(c.t, c2.t), Outside(o, 0, c.n + 1) \/ Outside(o2, 0, c2.n + 1))
              : c2 \in DataText(o2.data) }
            : c \in DataText(o.data) }

\* obj->data[index]: a byte of the storage, or any value when the offset
\* lies outside the allocation.
ByteAt(o, index) ==
    IF o.ptr = "valid" /\ index >= 0 /\ index < Len(o.data)
    THEN { Got(o.data[index + 1], TRUE, FALSE) }
    ELSE { Got(c, TRUE, TRUE) : c \in Byte }

\* cstr_at: chr is what the caller's variable held before the call.
cstr_at(o, index, chr) ==
    IF index >= o.length
    THEN { Got(chr, FALSE, FALSE) }
    ELSE ByteAt(o, index)

\* cstr_get: the index is not compared with the length.
cstr_get(o, index) == ByteAt(o, index)

\* cstr_front
cstr_front(o) == cstr_get(o, 0)

\* cstr_back: length - 1 of an empty buffer wraps to the largest size_t.
cstr_back(o) == cstr_get(o, o.length - 1)

\* One query on the object b, answered by one of outs: the caller observes
\* the answer, whose value is kept after the arguments in ret.arg.
Ask(b, outs, op, arg) ==
    /\ Going
    /\ \E r \in outs :
          /\ fault' = r.fault
          /\ ret' = [op |-> op, b |-> b, ok |-> r.ok, arg |-> arg \o <<r.out>>]
    /\ UNCHANGED <<obj, shrunk, others>>

FindChars(b, s) ==
    /\ Live(b)
    /\ Ask(b, cstr_find_chars(obj[b], s), "find_chars", <<s>>)

FindCstr(b, b2) ==
    /\ Live(b) /\ Live(b2)
    /\ Ask(b, cstr_find_cstr(obj[b], obj[b2]), "find_cstr", <<b2>>)

\* ----------------------------------------------------------- scenario: Find
\* Object 1 is built by cstr_create_from_buffer from any array of at most
\* MaxSrc bytes and object 2 from any array of at most MaxIn bytes; object 1
\* may lose bytes by PopBack and gain bytes by PushBackChar up to MaxSrc
\* bytes; the caller searches object 1 for an array or for object 2.
InitFind ==
    /\ \E s1 \in SrcArrays, s2 \in Arrays : Built(s1, s2)
    /\ scn = [name |-> "find"]
    /\ Quiet

NextFind ==
    \/ PopBack(1)
    \/ \E chr \in InByte : obj[1].length < MaxSrc /\ PushBackChar(1, chr)
    \/ \E s \in Arrays : FindChars(1, s)
    \/ FindCstr(1, 2)

SpecFind == InitFind /\ [][NextFind]_vars

\* The smallest offset at which the bytes n stand in the bytes h, within
\* the bytes of h; invalid when there is none.
FirstAt(h, n) ==
    LET at == {i \in 0..(Len(h) - Len(n)) : SubSeq(h, i + 1, i + Len(n)) = n}
    IN  IF at = {} THEN invalid
        ELSE CHOOSE i \in at : \A j \in at : i <= j

\* C13.  Find returns the smallest index at which the needle's bytes stand
\* in the content bytes 0..length-1 of the buffer, and invalid exactly when
\* there is no such index, whatever bytes the content holds.
C13_FindFirst ==
    /\ ret.op = "find_chars" =>
          ret.arg[2] = FirstAt(Stored(obj[ret.b]), Text(ret.arg[1]))
    /\ ret.op = "find_cstr" =>
          ret.arg[2] = FirstAt(Stored(obj[ret.b]), Stored(obj[ret.arg[1]]))

\* ----------------------------------------------------------- scenario: Trim
\* Object 1 is built by cstr_create_from_buffer from any array s of at most
\* MaxRt bytes, and may have been resized to one byte more; the caller
\* trims it, once or again.
InitTrim ==
    /\ \E s \in RtArrays :
          \E r \in cstr_create_from_buffer(Blank, s), room \in {0, 1} :
              /\ r.ok
              /\ \E o \in Roomy(r.o, room) :
                    /\ obj = [b \in Buf |-> IF b = 1 THEN o ELSE Blank]
                    /\ scn = [name |-> "trim", s |-> s, capacity |-> o.capacity]
    /\ Quiet

NextTrim == Trim(1)

SpecTrim == InitTrim /\ [][NextTrim]_vars

\* The bytes s without the spaces it starts with and the spaces it ends with.
RECURSIVE Stripped(_)
Stripped(s) ==
    IF s = <<>> THEN s
    ELSE IF isspace(s[1]) THEN Stripped(Tail(s))
    ELSE IF isspace(s[Len(s)]) THEN Stripped(SubSeq(s, 1, Len(s) - 1))
    ELSE s

\* C14.  After Trim the content is the original content without its leading
\* run and its trailing run of whitespace bytes, the length is the length of
\* that content and a terminator follows it; an empty buffer and a buffer of
\* whitespace only are empty afterwards; the capacity is unchanged and the
\* call accessed no byte outside the storage.
C14_TrimContent ==
    ret.op = "trim" =>
        /\ ~fault
        /\ obj[1].length = Len(Stripped(scn.s))
        /\ Stored(obj[1]) = Stripped(scn.s)
        /\ Terminated(obj[1])
        /\ obj[1].capacity = scn.capacity
        /\ Len(obj[1].data) = scn.capacity

\* Trim removed a space before and a space after content that stays, in a
\* buffer with room to spare.
C14_Witness ==
    /\ ret.op = "trim" /\ ret.ok /\ ~fault
    /\ Len(scn.s) = 3 /\ scn.s[1] = 32 /\ scn.s[3] = 32
    /\ obj[1].length = 1 /\ obj[1].data[1] = scn.s[2]
    /\ obj[1].capacity = 5

\* C15.  Trim returns true exactly when it changed the buffer (it removed a
\* whitespace byte at the start or at the end), and false otherwise, also
\* for a buffer that is not empty and has no whitespace to remove.
C15_TrimReports ==
    [][ret'.op = "trim" => (ret'.ok <=> obj'[1] # obj[1])]_vars

At(b, index, chr) ==
    /\ Live(b)
    /\ Ask(b, cstr_at(obj[b], index, chr), "at", <<index>>)

Get(b, index) ==
    /\ Live(b)
    /\ Ask(b, cstr_get(obj[b], index), "get", <<index>>)

Front(b) ==
    /\ Live(b)
    /\ Ask(b, cstr_front(obj[b]), "front", <<>>)

Back(b) ==
    /\ Live(b)
    /\ Ask(b, cstr_back(obj[b]), "back", <<>>)

\* ------------------------------------------------------ scenario: accessors
\* Object 1 is built by cstr_create_from_buffer from any array of at most
\* MaxSrc bytes, and may have been resized to one byte more; it may lose
\* bytes by PopBack; the caller reads it by At, Get, Front and Back.
InitPeek ==
    /\ \E s \in SrcArrays :
          \E r \in cstr_create_from_buffer(Blank, s), room \in {0, 1} :
              /\ r.ok
              /\ \E o \in Roomy(r.o, room) :
                    obj = [b \in Buf |-> IF b = 1 THEN o ELSE Blank]
    /\ scn = [name |-> "peek"]
    /\ Quiet

NextPeek ==
    \/ PopBack(1)
    \/ \E index \in 0..(MaxSrc + 2), chr \in Byte : At(1, index, chr)
    \/ \E index \in 0..(MaxSrc + 2) : Get(1, index)
    \/ Front(1)
    \/ Back(1)

SpecPeek == InitPeek /\ [][NextPeek]_vars

\* C16.  Get with an index at or past the length, Front of an empty buffer
\* and Back of an empty buffer return the character 0 and read no byte
\* outside the storage; At reports not found for an index at or past the
\* length, and found with the byte data[index] for an index below it.
C16_Accessors ==
    LET o == obj[1]
    IN  /\ (ret.op = "get" /\ ret.arg[1] >= o.length) =>
              (ret.arg[2] = 0 /\ ~fault)
        /\ (ret.op \in {"front", "back"} /\ o.length = 0) =>
              (ret.arg[1] = 0 /\ ~fault)
        /\ ret.op = "at" =>
              IF ret.arg[1] >= o.length THEN ~ret.ok /\ ~fault
              ELSE ret.ok /\ ret.arg[2] = o.data[ret.arg[1] + 1] /\ ~fault

\* ------------------------------------------------------------ the tokenizer
\* strchr(s, c) != NULL for the text s: c is a byte of s, or c is 0 and
\* strchr finds the terminator of s.
strchr(s, c) == c = 0 \/ \E k \in 1..Len(s) : s[k] = c

\* The first loop of both tokenizers over the content s: the offset of the
\* first byte at or after pos that strchr does not find in delimiters.
RECURSIVE SkipDelimiters(_, _, _)
SkipDelimiters(s, delimiters, pos) ==
    IF pos < Len(s) /\ strchr(delimiters, s[pos + 1])
    THEN SkipDelimiters(s, delimiters, pos + 1)
    ELSE pos

\* A second loop that never stops at a delimiter.
ScanTokenAll(s, delimiters, pos) == Len(s)

\* The second loop of cstr_tokenize: the offset of the first byte at or
\* after pos that strchr finds in delimiters, the length when there is none.
RECURSIVE ScanToken(_, _, _)
ScanToken(s, delimiters, pos) ==
    IF pos < Len(s) /\ ~strchr(delimiters, s[pos + 1])
    THEN ScanToken(s, delimiters, pos + 1)
    ELSE pos

\* What a tokenizer call leaves: the token object, the value returned, the
\* cursor *start_pos, the bounds of the token, what the scan did at each
\* byte from token_start on (cstr_tokenize_ex), the return path taken, and
\* whether the call accessed memory outside an allocation.
Tok(o, ok, pos, token_start, token_end, ev, why, bad) ==
    [o |-> o, ok |-> ok, pos |-> pos, token_start |-> token_start,
     token_end |-> token_end, ev |-> ev, why |-> why, fault |-> bad]

\* A tail that builds the token and leaves the cursor where the call found it.
EmitStay(token, s, start_pos, token_start, token_end, ev, bad) ==
    { Tok(token, FALSE, start_pos, token_start, token_end, ev, "nomem", bad) }
    \cup
    { Tok(c.o, c.ok, start_pos, token_start, token_end, ev, "token", bad)
      : c \in cstr_create_from_chars(token, SubSeq(s, token_start + 1, token_end)) }

\* The tail of both tokenizers: the bytes token_start .. token_end - 1 of the
\* content s are copied to a temporary array, the token is built from it by
\* cstr_create_from_chars, and the cursor moves past token_end.
Emit(token, s, start_pos, token_start, token_end, ev, bad) ==
    { Tok(token, FALSE, start_pos, token_start, token_end, ev, "nomem", bad) }
    \cup
    { Tok(c.o, c.ok,
          IF token_end < Len(s) THEN token_end + 1 ELSE Len(s),
          token_start, token_end, ev, "token", bad)
      : c \in cstr_create_from_chars(token, SubSeq(s, token_start + 1, token_end)) }

\* The bytes a scan from start_pos that stops at token_end has read.
Scanned(s, start_pos, token_end) ==
    (IF token_end < Len(s) THEN token_end + 1 ELSE Len(s)) - start_pos

\* cstr_tokenize
cstr_tokenize(o, token, delimiters, start_pos) ==
    IF start_pos >= o.length
    THEN { Tok(token, FALSE, start_pos, 0, 0, <<>>, "early", FALSE) }
    ELSE UNION {
           LET pos == SkipDelimiters(s, delimiters, start_pos)
               token_end == ScanToken(s, delimiters, pos)
           IN  IF pos >= Len(s)
               THEN { Tok(token, FALSE, pos, 0, 0, <<>>, "exhausted",
                          Outside(o, start_pos, Len(s) - start_pos)) }
               ELSE Emit(token, s, start_pos, pos, token_end, <<>>,
                         Outside(o, start_pos, Scanned(s, start_pos, token_end)))
           : s \in Bytes(o.data, 0, o.length) }

\* The loop over zone_pairs: the close character of the first complete pair
\* whose open character is c, 0 when no pair opens with c.
ZoneEnd(zone_pairs, c) ==
    LET zs == {z \in 0..((Len(zone_pairs) \div 2) - 1) : zone_pairs[2 * z + 1] = c}
    IN  IF zs = {} THEN 0
        ELSE zone_pairs[2 * (CHOOSE z \in zs : \A y \in zs : z <= y) + 2]

\* The for loop of cstr_tokenize_ex over the content s from pos on, with the
\* flags in_zone, zone_end and escape; k holds delimiters, zone_pairs and
\* escape_chars (an absent set is an empty one).  The result tells, byte by
\* byte, which branches the byte took: "suppressed" (escape was set),
\* "close" (c == zone_end), "delim" (token_end = pos; break), "open"
\* (in_zone = true), "arm" (escape = true); a byte that took none is
\* literal.  The loop stops after a "delim" or at the end of s.
RECURSIVE ScanEx(_, _, _, _, _, _)
ScanEx(s, pos, in_zone, zone_end, escape, k) ==
    IF pos >= Len(s) THEN <<>>
    ELSE LET c == s[pos + 1]
         IN  IF escape
             THEN <<{"suppressed"}>> \o ScanEx(s, pos + 1, in_zone, zone_end, FALSE, k)
             ELSE IF in_zone
             THEN IF c = zone_end
                  THEN <<{"close"}>> \o ScanEx(s, pos + 1, FALSE, 0, FALSE, k)
                  ELSE <<{}>> \o ScanEx(s, pos + 1, TRUE, zone_end, FALSE, k)
             ELSE IF strchr(k.delimiters, c)
             THEN <<{"delim"}>>
             ELSE LET z == ZoneEnd(k.zone_pairs, c)
                      arm == strchr(k.escape_chars, c)
                  IN  <<(IF z # 0 THEN {"open"} ELSE {}) \cup
                        (IF arm THEN {"arm"} ELSE {})>>
                      \o ScanEx(s, pos + 1, z # 0, z, arm, k)

\* cstr_tokenize_ex
cstr_tokenize_ex(o, token, k, start_pos) ==
    IF start_pos >= o.length
    THEN { Tok(token, FALSE, start_pos, 0, 0, <<>>, "early", FALSE) }
    ELSE UNION {
           LET pos == SkipDelimiters(s, k.delimiters, start_pos)
               ev == ScanEx(s, pos, FALSE, 0, FALSE, k)
               token_end == IF ev # <<>> /\ "delim" \in ev[Len(ev)]
                            THEN pos + Len(ev) - 1 ELSE Len(s)
           IN  IF pos >= Len(s)
               THEN { Tok(token, FALSE, pos, 0, 0, <<>>, "exhausted",
                          Outside(o, start_pos, Len(s) - start_pos)) }
               ELSE Emit(token, s, start_pos, pos, token_end, ev,
                         Outside(o, start_pos, Scanned(s, start_pos, token_end)))
           : s \in Bytes(o.data, 0, o.length) }

\* ------------------------------------------------------ scenario: tokenizing
\* The bytes of a content tokenized: NUL, '"', '(', ')', ',', '\' and 'a'.
TokByte == {0, 34, 40, 41, 44, 92, 97}
TokArrays == UNION {[1..n -> TokByte] : n \in 0..MaxTok}

\* The scanning configurations: the delimiter ','; no zone pair, the pair
\* '"' '"', or the pairs '(' ')' and '"' '"'; no escape character, the
\* escape character '\', or the escape character '"' (which the zone pairs
\* hold as well).
Plain == [delimiters |-> <<44>>, zone_pairs |-> <<>>, escape_chars |-> <<>>]
Configs == [delimiters : {<<44>>},
            zone_pairs : {<<>>, <<34, 34>>, <<40, 41, 34, 34>>},
            escape_chars : {<<>>, <<92>>, <<34>>}]

\* The example of the README: Hello, "my 'world!'" tokenized with the
\* delimiter ' ', the zone pair '"' '"' and the escape character '\'.
Readme == <<72, 101, 108, 108, 111, 44, 32, 34, 109, 121, 32, 39, 119, 111,
            114, 108, 100, 33, 39, 34>>
ReadmeConfig == [delimiters |-> <<32>>, zone_pairs |-> <<34, 34>>,
                 escape_chars |-> <<92>>]

\* A quoted text holding an escaped quote and a delimiter: "\",".
Quoted == <<34, 92, 34, 44, 34>>

\* Object 1 holds a content s; the caller starts with the cursor at 0 and
\* calls one tokenizer until it returns false, destroying the token
\* (object 2) after each call that returned one.
InitTokens ==
    /\ \E s \in TokArrays \cup {Readme, Quoted}, mode \in {"simple", "ex"}, k \in Configs \cup {ReadmeConfig} :
          /\ mode = "simple" => k = Plain
          /\ (s = Readme) = (k = ReadmeConfig)
          /\ \E r \in cstr_create_from_buffer(Blank, s) :
                r.ok /\ obj = [b \in Buf |-> IF b = 1 THEN r.o ELSE Blank]
          /\ scn = [name |-> "tokens", s |-> s, mode |-> mode, k |-> k,
                    pos |-> 0, calls |-> <<>>, done |-> FALSE]
    /\ Quiet

\* One tokenizer call of the scenario, leaving the outcome r.
Tokenized(r) ==
    /\ obj' = [obj EXCEPT ![2] = r.o]
    /\ fault' = (fault \/ r.fault)
    /\ scn' = [scn EXCEPT
                 !.pos = r.pos,
                 !.done = ~r.ok,
                 !.calls = Append(@, [ok |-> r.ok, why |-> r.why,
                                      from |-> scn.pos, to |-> r.pos,
                                      token_start |-> r.token_start,
                                      token_end |-> r.token_end, ev |-> r.ev,
                                      ptr |-> r.o.ptr, length |-> r.o.length,
                                      text |-> Stored(r.o)])]
    /\ UNCHANGED <<shrunk, ret, lock, pc, loc>>

Tokenize ==
    /\ scn.name = "tokens" /\ scn.mode = "simple"
    /\ Going /\ ~scn.done /\ ~Live(2)
    /\ \E r \in cstr_tokenize(obj[1], obj[2], scn.k.delimiters, scn.pos) :
          Tokenized(r)

TokenizeEx ==
    /\ scn.name = "tokens" /\ scn.mode = "ex"
    /\ Going /\ ~scn.done /\ ~Live(2)
    /\ \E r \in cstr_tokenize_ex(obj[1], obj[2], scn.k, scn.pos) :
          Tokenized(r)

NextTokens ==
    \/ Tokenize
    \/ TokenizeEx
    \/ Destroy(2)

SpecTokens == InitTokens /\ [][NextTokens]_vars

\* The offsets at which a maximal run of bytes outside the set D starts in
\* the bytes s, the offset after the run that starts at i, and the start of
\* the n-th run from the left.
RunStarts(s, D) ==
    {i \in 0..(Len(s) - 1) : s[i + 1] \notin D /\ (i = 0 \/ s[i] \in D)}

RunEnd(s, D, i) ==
    LET es == {e \in i..Len(s) : e = Len(s) \/ s[e + 1] \in D}
    IN  CHOOSE e \in es : \A f \in es : e <= f

NthRun(s, D, n) ==
    CHOOSE i \in RunStarts(s, D) :
        Cardinality({j \in RunStarts(s, D) : j < i}) = n - 1

\* The bytes of a text, as a set.
Chars(t) == {t[k] : k \in 1..Len(t)}

\* C17.  From cursor 0, the successive calls of the simple tokenizer emit the
\* maximal non-empty runs of non-delimiter bytes of the content, one per call
\* from left to right, each as a token holding the bytes of its run; after a
\* token the cursor is token_end + 1 when a delimiter stands at token_end and
\* the length otherwise; the call after the last run returns false with the
\* cursor at the length.  (A call that cannot allocate its temporary array
\* returns false as well; nothing is stated for it.)
C17_SimpleTokens ==
    scn.mode = "simple" =>
        LET s == scn.s
            D == Chars(scn.k.delimiters)
        IN  \A i \in 1..Len(scn.calls) :
                LET c == scn.calls[i]
                IN  IF i <= Cardinality(RunStarts(s, D))
                    THEN c.why # "nomem" =>
                            LET st == NthRun(s, D, i)
                                en == RunEnd(s, D, st)
                            IN  /\ c.ok
                                /\ c.ptr = "valid"
                                /\ c.length = en - st
                                /\ c.text = SubSeq(s, st + 1, en)
                                /\ c.to = IF en < Len(s) THEN en + 1 ELSE Len(s)
                    ELSE ~c.ok /\ c.to = Len(s)

\* C18.  On the buffer Hello, "my 'world!'" with the delimiter ' ', the zone
\* pair '"' '"' and the escape character '\', the first call of the
\* zone/escape tokenizer emits the token Hello, and the second the token
\* "my 'world!'" (the space inside the quotes does not end it), after which
\* the cursor is the length.  (Nothing is stated for a call that cannot
\* allocate its temporary array.)
C18_ReadmeTokens ==
    (scn.s = Readme /\ scn.k = ReadmeConfig) =>
        /\ (Len(scn.calls) >= 1 /\ scn.calls[1].why # "nomem") =>
              /\ scn.calls[1].ok
              /\ scn.calls[1].ptr = "valid"
              /\ scn.calls[1].text = SubSeq(Readme, 1, 6)
        /\ (Len(scn.calls) >= 2 /\ scn.calls[2].why # "nomem") =>
              /\ scn.calls[2].ok
              /\ scn.calls[2].ptr = "valid"
              /\ scn.calls[2].text = SubSeq(Readme, 8, 20)
              /\ scn.calls[2].to = Len(Readme)

\* C19.  In the scan of the zone/escape tokenizer, the byte that follows an
\* escape character (one that was not itself suppressed), outside a zone or
\* inside one, is not taken as a delimiter, as a zone opener or as a zone
\* closer.
C19_EscapedLiteral ==
    scn.mode = "ex" =>
        \A i \in 1..Len(scn.calls) :
            LET c == scn.calls[i]
            IN  \A p \in 1..(Len(c.ev) - 1) :
                    (/\ scn.s[c.token_start + p] \in Chars(scn.k.escape_chars)
                     /\ "suppressed" \notin c.ev[p])
                    => c.ev[p + 1] \cap {"delim", "open", "close"} = {}

\* -------------------------------------------------------- scenario: Destroy
\* Object 1 is built by cstr_create_from_buffer from any array of at most
\* MaxSrc bytes; the caller resizes it, destroys it, destroys it again and
\* creates it anew, in any order.
InitDestroy ==
    /\ \E s \in SrcArrays :
          \E r \in cstr_create_from_buffer(Blank, s) :
              r.ok /\ obj = [b \in Buf |-> IF b = 1 THEN r.o ELSE Blank]
    /\ scn = [name |-> "destroy"]
    /\ Quiet

DsResize(size) ==
    /\ scn.name = "destroy"
    /\ Live(1) /\ Going
    /\ \E r \in cstr_resize(obj[1], size) : Step(1, r)
    /\ UNCHANGED scn

NextDestroy ==
    \/ \E size \in 0..(MaxSrc + 1) : DsResize(size)
    \/ Destroy(1)
    \/ Create(1)

SpecDestroy == InitDestroy /\ [][NextDestroy]_vars

\* C20.  Destroy zeroes the capacity bytes of the storage, all of them bytes
\* of the storage, releases it and sets length and capacity to 0; whatever
\* calls came before, other Destroy calls included, it releases no storage
\* that was released already.
C20_DestroyOnce ==
    ret.op = "destroy" =>
        /\ ~fault
        /\ obj[ret.b].ptr = "null"
        /\ obj[ret.b].length = 0
        /\ obj[ret.b].capacity = 0

\* C21.  After any sequence of constructors and buffer operations, the
\* storage of a live buffer has as many bytes as its capacity field says,
\* and no call has written or read outside an allocation.
C21_AllocationIsCapacity ==
    /\ ~fault
    /\ \A b \in Buf :
          (Live(b) /\ obj[b].ptr = "valid") => Len(obj[b].data) = obj[b].capacity

\* ------------------------------------------------- the locks of every call
\* What a call does to the critical sections on one of its return paths, in
\* order: "lock" and "unlock" are cstr_lock(obj) and cstr_unlock(obj),
\* "lock2" and "unlock2" the same on obj2.
Locked(inner) == <<"lock">> \o inner \o <<"unlock">>

\* cstr_resize with a second cstr_lock(obj) before its first cstr_unlock.
ResizeLocksTwice == Locked(Locked(<<>>))

\* cstr_resize and cstr_get as callees: each locks obj and unlocks it on
\* each of its return paths.
ResizeLocks == Locked(<<>>)
GetLocks == Locked(<<>>)

\* cstr_swap and cstr_find_cstr: obj, then obj2; released in reverse.
BothLocked == <<"lock", "lock2", "unlock2", "unlock">>

\* One return path of a function: the line of its return statement and the
\* lock events before it.
Path(op, line, ev) == [op |-> op, line |-> line, ev |-> ev]
NoPath == Path("none", 0, <<>>)

\* The return paths of every function that takes a lock (the returns for a
\* NULL argument, the constructors and cstr_destroy take none).  Where two
\* paths end at the same return, one has called cstr_resize and one has not.
Paths ==
    { Path("cstr_at", 270, Locked(<<>>)), Path("cstr_at", 277, Locked(<<>>)),
      Path("cstr_get", 298, GetLocks),
      Path("cstr_front", 317, Locked(GetLocks)),
      Path("cstr_back", 336, Locked(GetLocks)),
      Path("cstr_data", 356, Locked(<<>>)),
      Path("cstr_length", 375, Locked(<<>>)),
      Path("cstr_capacity", 394, Locked(<<>>)),
      Path("cstr_empty", 413, Locked(<<>>)),
      Path("cstr_resize", 434, ResizeLocks), Path("cstr_resize", 442, ResizeLocks),
      Path("cstr_shrink_to_fit", 460, Locked(ResizeLocks)),
      Path("cstr_shrink_to_fit", 465, Locked(ResizeLocks)),
      Path("cstr_clear", 486, Locked(<<>>)),
      Path("cstr_push_back_char", 507, Locked(ResizeLocks)),
      Path("cstr_push_back_char", 517, Locked(ResizeLocks)),
      Path("cstr_push_back_char", 517, Locked(<<>>)),
      Path("cstr_push_back_wchar", 539, Locked(<<>>)),
      Path("cstr_push_back_wchar", 546, Locked(<<>>)),
      Path("cstr_push_back_wchar", 553, Locked(<<>>)),
      Path("cstr_push_back_wchar", 569, Locked(<<>>)),
      Path("cstr_push_back_wchar", 582, Locked(<<>>)),
      Path("cstr_pop_back", 600, Locked(<<>>)), Path("cstr_pop_back", 608, Locked(<<>>)),
      Path("cstr_append_cstr", 632, Locked(ResizeLocks)),
      Path("cstr_append_cstr", 642, Locked(ResizeLocks)),
      Path("cstr_append_cstr", 642, Locked(<<>>)),
      Path("cstr_append_chars", 667, Locked(ResizeLocks)),
      Path("cstr_append_chars", 677, Locked(ResizeLocks)),
      Path("cstr_append_chars", 677, Locked(<<>>)),
      Path("cstr_append_wchars", 698, Locked(<<>>)),
      Path("cstr_append_wchars", 705, Locked(<<>>)),
      Path("cstr_append_wchars", 712, Locked(<<>>)),
      Path("cstr_append_wchars", 725, Locked(ResizeLocks)),
      Path("cstr_append_wchars", 737, Locked(ResizeLocks)),
      Path("cstr_append_wchars", 737, Locked(<<>>)),
      Path("cstr_substring", 759, Locked(<<>>)), Path("cstr_substring", 770, Locked(<<>>)),
      Path("cstr_substring", 780, Locked(<<>>)), Path("cstr_substring", 787, Locked(<<>>)),
      Path("cstr_erase", 807, Locked(<<>>)), Path("cstr_erase", 821, Locked(<<>>)),
      Path("cstr_insert", 841, Locked(<<>>)),
      Path("cstr_insert", 852, Locked(ResizeLocks)),
      Path("cstr_insert", 863, Locked(ResizeLocks)),
      Path("cstr_insert", 863, Locked(<<>>)),
      Path("cstr_swap", 895, BothLocked),
      Path("cstr_find_cstr", 918, BothLocked),
      Path("cstr_find_chars", 939, Locked(<<>>)),
      Path("cstr_find_wchars", 956, <<>>), Path("cstr_find_wchars", 960, <<>>),
      Path("cstr_find_wchars", 965, <<>>), Path("cstr_find_wchars", 977, Locked(<<>>)),
      Path("cstr_to_upper", 997, Locked(<<>>)),
      Path("cstr_to_lower", 1017, Locked(<<>>)),
      Path("cstr_trim", 1035, Locked(<<>>)), Path("cstr_trim", 1057, Locked(<<>>)),
      Path("cstr_tokenize", 1071, <<>>), Path("cstr_tokenize", 1085, Locked(<<>>)),
      Path("cstr_tokenize", 1100, Locked(<<>>)), Path("cstr_tokenize", 1110, Locked(<<>>)),
      Path("cstr_tokenize", 1119, Locked(<<>>)),
      Path("cstr_tokenize_ex", 1143, <<>>), Path("cstr_tokenize_ex", 1157, Locked(<<>>)),
      Path("cstr_tokenize_ex", 1219, Locked(<<>>)), Path("cstr_tokenize_ex", 1229, Locked(<<>>)),
      Path("cstr_tokenize_ex", 1237, Locked(<<>>)) }

\* ---------------------------------------------------------- scenario: locks
\* Thread 1 calls the functions one after the other, each on any objects
\* and along any of its return paths; thread 2 enters and leaves the
\* critical sections whenever it can.
InitLocks ==
    /\ Built(<<>>, <<>>)
    /\ scn = [name |-> "locks", path |-> NoPath, at |-> 0, last |-> NoPath]
    /\ Quiet

\* The call starts: obj is b, obj2 is b2.
LkCall(p, b, b2) ==
    /\ scn.name = "locks" /\ pc[1] = "idle"
    /\ loc' = [loc EXCEPT ![1] = [NoLocals EXCEPT !.op = p.op, !.obj = b, !.obj2 = b2]]
    /\ scn' = [scn EXCEPT !.path = p, !.at = 1]
    /\ Goto(1, "locks_run")
    /\ UNCHANGED <<obj, fault, shrunk, ret, lock>>

\* The object an event of the call is about.
Of(e) == IF e \in {"lock", "unlock"} THEN loc[1].obj ELSE loc[1].obj2

\* The next event of the call is a cstr_lock.
LkLock ==
    /\ pc[1] = "locks_run" /\ scn.at <= Len(scn.path.ev)
    /\ scn.path.ev[scn.at] \in {"lock", "lock2"}
    /\ cstr_lock(1, Of(scn.path.ev[scn.at]))
    /\ scn' = [scn EXCEPT !.at = @ + 1]
    /\ UNCHANGED <<obj, fault, shrunk, ret, pc, loc>>

\* The next event of the call is a cstr_unlock.
LkUnlock ==
    /\ pc[1] = "locks_run" /\ scn.at <= Len(scn.path.ev)
    /\ scn.path.ev[scn.at] \in {"unlock", "unlock2"}
    /\ cstr_unlock(1, Of(scn.path.ev[scn.at]))
    /\ scn' = [scn EXCEPT !.at = @ + 1]
    /\ UNCHANGED <<obj, fault, shrunk, ret, pc, loc>>

\* The call returns.
LkReturn ==
    /\ pc[1] = "locks_run" /\ scn.at > Len(scn.path.ev)
    /\ scn' = [scn EXCEPT !.path = NoPath, !.at = 0, !.last = scn.path]
    /\ loc' = [loc EXCEPT ![1] = NoLocals]
    /\ Goto(1, "idle")
    /\ UNCHANGED <<obj, fault, shrunk, ret, lock>>

\* Thread 2 enters the critical section of b, and leaves it.
OtherLock(b) ==
    /\ scn.name = "locks" /\ pc[2] = "idle"
    /\ cstr_lock(2, b)
    /\ loc' = [loc EXCEPT ![2] = [NoLocals EXCEPT !.obj = b]]
    /\ Goto(2, "locks_held")
    /\ UNCHANGED <<obj, fault, shrunk, ret, scn>>

OtherUnlock ==
    /\ pc[2] = "locks_held"
    /\ cstr_unlock(2, loc[2].obj)
    /\ loc' = [loc EXCEPT ![2] = NoLocals]
    /\ Goto(2, "idle")
    /\ UNCHANGED <<obj, fault, shrunk, ret, scn>>

NextLocks ==
    \/ \E p \in Paths, b \in Buf, b2 \in Buf : LkCall(p, b, b2)
    \/ LkLock
    \/ LkUnlock
    \/ LkReturn
    \/ \E b \in Buf : OtherLock(b)
    \/ OtherUnlock

SpecLocks == InitLocks /\ [][NextLocks]_vars

\* C22.  Every call releases each lock it acquired on each of its return
\* paths: when a call has returned, the calling thread owns no critical
\* section, so that another thread can enter each of them.
C22_LocksReleased ==
    (pc[1] = "idle" \/ (pc[1] = "locks_run" /\ scn.at > Len(scn.path.ev))) =>
        \A b \in Buf : lock[b].owner # 1

\* A failure path of cstr_tokenize_ex has returned and thread 2 has entered
\* the critical section of the object the call had locked.
C22_Witness ==
    /\ pc[1] = "idle"
    /\ scn.last = Path("cstr_tokenize_ex", 1219, Locked(<<>>))
    /\ pc[2] = "locks_held" /\ lock[loc[2].obj].owner = 2

\* The functions that call cstr_resize or cstr_get with obj locked.
Nesting ==
    {"cstr_shrink_to_fit", "cstr_front", "cstr_back", "cstr_push_back_char",
     "cstr_append_cstr", "cstr_append_chars", "cstr_append_wchars", "cstr_insert"}

C23_OneTrigger ==
    scn.mode = "ex" =>
        \A i \in 1..Len(scn.calls) :
            \A p \in 1..Len(scn.calls[i].ev) :
                Cardinality(scn.calls[i].ev[p]) <= 1

\* The byte at index j of the content s (counted from 1) follows an escape
\* character of the set E that is not itself escaped, in a scan that began
\* after index start.
RECURSIVE Escaped(_, _, _, _)
Escaped(s, E, start, j) ==
    j > start + 1 /\ s[j - 1] \in E /\ ~Escaped(s, E, start, j - 1)

\* C24.  Zones do not nest.  From the byte that opens a zone up to the first
\* unescaped occurrence of the close character of its pair, no byte opens a
\* zone, closes the zone or ends the token (an open character of any pair is
\* a literal there); that occurrence closes the zone, and a delimiter right
\* after it ends the token.
C24_ZonesDoNotNest ==
    scn.mode = "ex" =>
        \A i \in 1..Len(scn.calls) :
            LET c == scn.calls[i]
                s == scn.s
                E == Chars(scn.k.escape_chars)
                st == c.token_start
            IN  \A q \in 1..Len(c.ev) :
                    "open" \in c.ev[q] =>
                        LET closer == ZoneEnd(scn.k.zone_pairs, s[st + q])
                            ends == {j \in (st + q + 1)..Len(s) :
                                        s[j] = closer /\ ~Escaped(s, E, st, j)}
                        IN  ends # {} =>
                                LET j == CHOOSE e \in ends : \A f \in ends : e <= f
                                    p == j - st
                                IN  /\ p <= Len(c.ev)
                                    /\ "close" \in c.ev[p]
                                    /\ \A r \in (q + 1)..(p - 1) :
                                          c.ev[r] \cap {"open", "close", "delim"} = {}
                                    /\ (/\ j < Len(s)
                                        /\ s[j + 1] \in Chars(scn.k.delimiters)
                                        /\ ~Escaped(s, E, st, j + 1))
                                       => (p < Len(c.ev) /\ "delim" \in c.ev[p + 1])

\* C26.  While the buffer is not modified, a tokenizer call of either mode
\* that returns a token leaves the cursor greater than it found it and at
\* most the length; a call that returns none does not move the cursor back;
\* and no more calls than the buffer has bytes return a token.
C26_CursorProgress ==
    scn.name = "tokens" =>
        /\ \A i \in 1..Len(scn.calls) :
              LET c == scn.calls[i]
              IN  /\ c.ok => (c.from < c.to /\ c.to <= Len(scn.s))
                  /\ ~c.ok => c.from <= c.to
        /\ Cardinality({i \in 1..Len(scn.calls) : scn.calls[i].ok}) <= Len(scn.s)
        /\ obj[1].length = Len(scn.s)

C26_Witness ==
    /\ scn.name = "tokens" /\ scn.mode = "ex"
    /\ scn.s = <<44, 97, 44>>
    /\ scn.k.zone_pairs = <<34, 34>> /\ scn.k.escape_chars = <<92>>
    /\ Len(scn.calls) = 2
    /\ scn.calls[1].ok /\ scn.calls[1].from = 0 /\ scn.calls[1].to = 3
    /\ ~scn.calls[2].ok /\ scn.calls[2].to = 3

\* ------------------------------------------------- scenario: the two modes
\* The bytes of a content of the scenario: NUL, '"', ',', '\' and 'a'; its
\* delimiter texts: "", "," and "\",".
ModeByte == {0, 34, 44, 92, 97}
ModeArrays == UNION {[1..n -> ModeByte] : n \in 0..MaxTok}
Delims == {<<>>, <<44>>, <<34, 44>>}

\* The configuration of cstr_tokenize_ex that names no zone pair and no
\* escape character.  The guards `if (zone_pairs)` and `escape_chars &&` make
\* a NULL argument scan as the empty text does, so <<>> stands for both.
NoZones(delimiters) ==
    [delimiters |-> delimiters, zone_pairs |-> <<>>, escape_chars |-> <<>>]

\* Object 1 holds a content s; the caller calls cstr_tokenize and then
\* cstr_tokenize_ex with the same delimiters and the same start cursor,
\* destroying the token (object 2) in between.
InitModes ==
    /\ \E s \in ModeArrays, d \in Delims, start \in 0..(MaxTok + 1) :
          /\ start <= Len(s) + 1
          /\ \E r \in cstr_create_from_buffer(Blank, s) :
                r.ok /\ obj = [b \in Buf |-> IF b = 1 THEN r.o ELSE Blank]
          /\ scn = [name |-> "modes", s |-> s, delimiters |-> d,
                    start |-> start, simple |-> <<>>, ex |-> <<>>]
    /\ Quiet

\* What a call left: its result, the cursor and the token.
Left(r) ==
    [ok |-> r.ok, why |-> r.why, to |-> r.pos, ptr |-> r.o.ptr,
     length |-> r.o.length, text |-> Stored(r.o)]

MdTokenize ==
    /\ scn.name = "modes" /\ scn.simple = <<>>
    /\ Going /\ ~Live(2)
    /\ \E r \in cstr_tokenize(obj[1], obj[2], scn.delimiters, scn.start) :
          /\ obj' = [obj EXCEPT ![2] = r.o]
          /\ fault' = (fault \/ r.fault)
          /\ scn' = [scn EXCEPT !.simple = <<Left(r)>>]
    /\ UNCHANGED <<shrunk, ret, lock, pc, loc>>

MdTokenizeEx ==
    /\ scn.name = "modes" /\ scn.simple # <<>> /\ scn.ex = <<>>
    /\ Going /\ ~Live(2)
    /\ \E r \in cstr_tokenize_ex(obj[1], obj[2], NoZones(scn.delimiters), scn.start) :
          /\ obj' = [obj EXCEPT ![2] = r.o]
          /\ fault' = (fault \/ r.fault)
          /\ scn' = [scn EXCEPT !.ex = <<Left(r)>>]
    /\ UNCHANGED <<shrunk, ret, lock, pc, loc>>

NextModes ==
    \/ MdTokenize
    \/ MdTokenizeEx
    \/ Destroy(2)

SpecModes == InitModes /\ [][NextModes]_vars

\* An allocation of the call failed: that of the temporary array, or that of
\* the token's storage, which leaves the token without storage.
NoMemory(c) == c.why = "nomem" \/ (c.why = "token" /\ c.ptr # "valid")

\* C27.  With no zone pair and no escape character, cstr_tokenize_ex returns
\* what cstr_tokenize returns for the same content, delimiters and start
\* cursor: the same result, the same token and the same cursor; and the two
\* have the same set of outcomes, the scan events aside.
C27_SameAsSimple ==
    scn.name = "modes" =>
        /\ (/\ scn.simple # <<>> /\ scn.ex # <<>>
            /\ ~NoMemory(scn.simple[1]) /\ ~NoMemory(scn.ex[1]))
           => scn.ex[1] = scn.simple[1]
        /\ {[r EXCEPT !.ev = <<>>] :
                r \in cstr_tokenize_ex(obj[1], Blank, NoZones(scn.delimiters), scn.start)}
           = cstr_tokenize(obj[1], Blank, scn.delimiters, scn.start)

C27_Witness ==
    /\ scn.name = "modes"
    /\ scn.s = <<34, 92, 44>> /\ scn.delimiters = <<44>> /\ scn.start = 0
    /\ scn.simple # <<>> /\ scn.ex # <<>>
    /\ scn.ex[1].ok /\ scn.ex[1].text = <<34, 92>> /\ scn.ex[1].to = 3
    /\ scn.simple[1].ok

====
